---- MODULE Spec2Model ----
(***************************************************************************)
(* State-machine model of the Chat component of YewChat                    *)
(* (src/components/chat.rs): Chat::create, Chat::update and Chat::view,    *)
(* together with the serde decoding of the wire envelope and of the nested *)
(* message record.                                                         *)
(*                                                                         *)
(* Strings that the program parses are modelled by their JSON structure:   *)
(* a Text is either a raw string that is not a JSON object (Raw) or the    *)
(* text of a JSON object with optional "from" and "message" members (Obj). *)
(* A wire text is either not JSON at all or a JSON object whose three      *)
(* members messageType, dataArray and data are each absent, null, a        *)
(* string, an array of strings or a value of another type (a number).      *)
(***************************************************************************)
EXTENDS Naturals, Sequences, FiniteSets

VARIABLES
    username,       \* the ambient User context's username
    created,        \* Chat::create has run
    dark_mode,      \* Chat.dark_mode
    users,          \* Chat.users
    messages,       \* Chat.messages
    chat_input,     \* Chat.chat_input: the <input> element the NodeRef is bound to
    tx,             \* texts accepted by wss.tx (the outbound channel), in order
    panicked,       \* an unwrap() has panicked: the component is dead
    need_render,    \* a render is pending (create, or update returned true)
    should_render,  \* the value returned by the most recent update
    last_msg        \* the Msg most recently dispatched to update

vars == <<username, created, dark_mode, users, messages, chat_input, tx,
          panicked, need_render, should_render, last_msg>>

----------------------------------------------------------------------------
(* Bounds                                                                  *)

\* longest message log explored
MaxLog == 2
\* longest outbound channel content explored
MaxOut == 2

----------------------------------------------------------------------------
(* Strings and Option values                                               *)

NoStr == [some |-> FALSE, val |-> ""]
SomeStr(s) == [some |-> TRUE, val |-> s]

Raw(s) == [obj |-> FALSE, txt |-> s, from |-> NoStr, message |-> NoStr]
Obj(f, m) == [obj |-> TRUE, txt |-> "", from |-> f, message |-> m]

NoneS == [some |-> FALSE, val |-> Raw("")]
SomeS(t) == [some |-> TRUE, val |-> t]
NoneV == [some |-> FALSE, val |-> <<>>]
SomeV(l) == [some |-> TRUE, val |-> l]

\* JSON member values of a wire object
JAbsent == [k |-> "absent", s |-> Raw(""), a |-> <<>>]
JNull == [k |-> "null", s |-> Raw(""), a |-> <<>>]
JNum == [k |-> "num", s |-> Raw(""), a |-> <<>>]
JStr(t) == [k |-> "str", s |-> t, a |-> <<>>]
JArr(l) == [k |-> "arr", s |-> Raw(""), a |-> l]

NotJson == [json |-> FALSE, messageType |-> JAbsent, dataArray |-> JAbsent, data |-> JAbsent]
Wire(mt, da, d) == [json |-> TRUE, messageType |-> mt, dataArray |-> da, data |-> d]

----------------------------------------------------------------------------
(* Inputs                                                                  *)

Usernames == {"alice", "bob"}

\* what the user can type into the input field
InputValues == {Raw(""), Raw(" hi ")}

NameLists == {<<>>, <<"alice">>, <<"alice", "bob">>, <<"bob", "bob">>}

NestedTexts ==
    { Obj(SomeStr("bob"), SomeStr("hi")),
      Obj(SomeStr("alice"), SomeStr("cat.gif")),
      Obj(SomeStr("bob"), NoStr),
      Obj(NoStr, SomeStr("hi")),
      Raw("hi") }

\* the texts the event bus can deliver
InboundTexts ==
    {NotJson,
     Wire(JAbsent, JNull, JStr(Raw("hi"))),
     Wire(JStr(Raw("bogus")), JNull, JNull),
     Wire(JNum, JNull, JNull)}
    \cup {Wire(JStr(Raw("users")), JArr(l), JAbsent) : l \in NameLists}
    \cup {Wire(JStr(Raw("users")), JAbsent, JNull),
          Wire(JStr(Raw("users")), JNull, JStr(Raw("hi"))),
          Wire(JStr(Raw("users")), JNum, JNull)}
    \cup {Wire(JStr(Raw("register")), JNull, JStr(Raw("alice"))),
          Wire(JStr(Raw("register")), JArr(<<"alice">>), JAbsent)}
    \cup {Wire(JStr(Raw("message")), JNull, JStr(t)) : t \in NestedTexts}
    \cup {Wire(JStr(Raw("message")), JAbsent, JAbsent),
          Wire(JStr(Raw("message")), JArr(<<"alice">>), JNull),
          Wire(JStr(Raw("message")), JNull, JNum)}

----------------------------------------------------------------------------
(* serde: the wire envelope                                                *)

\* #[serde(rename_all = "lowercase")] enum MsgTypes
MsgTypes == {"users", "register", "message"}

Err == [ok |-> FALSE,
        val |-> [message_type |-> "register", data_array |-> NoneV, data |-> NoneS]]
Ok(v) == [ok |-> TRUE, val |-> v]

\* serde_json::from_str::<WebSocketMessage>: the text is a JSON object, the
\* required member messageType is a known variant name, and the two Option
\* members are absent, null or of their type.
FromStrWebSocketMessage(s) ==
    IF ~s.json THEN Err
    ELSE IF s.messageType.k # "str" THEN Err
    ELSE IF s.messageType.s.obj \/ s.messageType.s.txt \notin MsgTypes THEN Err
    ELSE IF s.dataArray.k \notin {"absent", "null", "arr"} THEN Err
    ELSE IF s.data.k \notin {"absent", "null", "str"} THEN Err
    ELSE Ok([message_type |-> s.messageType.s.txt,
             data_array |-> IF s.dataArray.k = "arr" THEN SomeV(s.dataArray.a) ELSE NoneV,
             data |-> IF s.data.k = "str" THEN SomeS(s.data.s) ELSE NoneS])

\* serde_json::to_string(&WebSocketMessage): every member is written, None as null
ToStringWebSocketMessage(m) ==
    Wire(JStr(Raw(m.message_type)),
         IF m.data_array.some THEN JArr(m.data_array.val) ELSE JNull,
         IF m.data.some THEN JStr(m.data.val) ELSE JNull)

ErrData == [ok |-> FALSE, val |-> [from |-> "", message |-> ""]]

\* serde_json::from_str::<MessageData>: a JSON object with both string members
FromStrMessageData(t) ==
    IF t.obj /\ t.from.some /\ t.message.some
    THEN [ok |-> TRUE, val |-> [from |-> t.from.val, message |-> t.message.val]]
    ELSE ErrData

----------------------------------------------------------------------------
(* Chat::create                                                            *)

\* a register envelope that carries the username in data_array
RegisterMessage_inArray(u) ==
    [message_type |-> "register", data |-> NoneS, data_array |-> SomeV(<<u>>)]

RegisterMessage(u) ==
    [message_type |-> "register", data |-> SomeS(Raw(u)), data_array |-> NoneV]

\* wss.tx.try_send(text): the channel takes the text or refuses it
TrySend(chan, text, ok) == IF ok THEN Append(chan, text) ELSE chan

Init ==
    /\ username \in Usernames
    /\ created = FALSE
    /\ dark_mode = FALSE
    /\ users = <<>>
    /\ messages = <<>>
    /\ chat_input = NoneS
    /\ tx = <<>>
    /\ panicked = FALSE
    /\ need_render = FALSE
    /\ should_render = FALSE
    /\ last_msg = "none"

\* a creation that seeds the roster with the local user
Create_seeded(ok) ==
    /\ ~created
    /\ created' = TRUE
    /\ tx' = TrySend(tx, ToStringWebSocketMessage(RegisterMessage(username)), ok)
    /\ users' = IF ok THEN <<[name |-> username, avatar |-> ""]>> ELSE <<>>
    /\ messages' = <<>>
    /\ chat_input' = NoneS
    /\ dark_mode' = FALSE
    /\ need_render' = TRUE
    /\ UNCHANGED <<username, panicked, should_render, last_msg>>

Create(ok) ==
    /\ ~created
    /\ created' = TRUE
    /\ tx' = TrySend(tx, ToStringWebSocketMessage(RegisterMessage(username)), ok)
    /\ users' = <<>>
    /\ messages' = <<>>
    /\ chat_input' = NoneS
    /\ dark_mode' = FALSE
    /\ need_render' = TRUE
    /\ UNCHANGED <<username, panicked, should_render, last_msg>>

----------------------------------------------------------------------------
(* Chat::update                                                            *)

\* an unwrap() on None or on Err: the state is left as it was and the
\* component stops
Panic ==
    /\ panicked' = TRUE
    /\ UNCHANGED <<users, messages, need_render, should_render>>

\* a switch that only turns dark mode on
toggle_dark_mode_on(d) == TRUE

\* Chat::toggle_dark_mode
toggle_dark_mode(d) == ~d

\* a toggle whose re-render loses the text of the input element
ToggleDarkMode_clearsInput ==
    /\ created /\ ~panicked /\ chat_input.some
    /\ dark_mode' = toggle_dark_mode(dark_mode)
    /\ chat_input' = SomeS(Raw(""))
    /\ should_render' = TRUE
    /\ need_render' = TRUE
    /\ last_msg' = "ToggleDarkMode"
    /\ UNCHANGED <<username, created, users, messages, tx, panicked>>

ToggleDarkMode ==
    /\ created /\ ~panicked /\ chat_input.some
    /\ dark_mode' = toggle_dark_mode(dark_mode)
    /\ should_render' = TRUE
    /\ need_render' = TRUE
    /\ last_msg' = "ToggleDarkMode"
    /\ UNCHANGED <<username, created, users, messages, chat_input, tx, panicked>>

\* Option::unwrap_or_default on data_array
UnwrapOrDefault(o) == IF o.some THEN o.val ELSE <<>>

Avatar(u) == "https://avatars.dicebear.com/api/adventurer-neutral/" \o u \o ".svg"

RECURSIVE DedupSeq(_)
\* the first occurrence of every element of l, in order
DedupSeq(l) ==
    IF l = <<>> THEN <<>>
    ELSE LET r == DedupSeq(SubSeq(l, 1, Len(l) - 1))
             x == l[Len(l)]
         IN IF \E i \in 1..Len(r) : r[i] = x THEN r ELSE Append(r, x)

\* a roster keyed by name: a repeated name yields one profile
MakeProfiles_dedup(names) ==
    [i \in 1..Len(DedupSeq(names)) |->
        [name |-> DedupSeq(names)[i], avatar |-> Avatar(DedupSeq(names)[i])]]

\* users_from_message.iter().map(|u| UserProfile {..}).collect()
MakeProfiles(names) ==
    [i \in 1..Len(names) |-> [name |-> names[i], avatar |-> Avatar(names[i])]]

\* a roster that is patched instead of replaced: names not yet listed are added
HandleUsers_patch(msg) ==
    /\ users' = users \o MakeProfiles(SelectSeq(UnwrapOrDefault(msg.data_array),
                        LAMBDA n : ~ \E i \in 1..Len(users) : users[i].name = n))
    /\ should_render' = TRUE
    /\ need_render' = TRUE
    /\ UNCHANGED <<messages, panicked>>

\* a roster update that also drops the logged messages of users no longer listed
HandleUsers_prune(msg) ==
    /\ users' = MakeProfiles(UnwrapOrDefault(msg.data_array))
    /\ messages' = SelectSeq(messages,
                     LAMBDA m : \E i \in 1..Len(UnwrapOrDefault(msg.data_array)) :
                                   UnwrapOrDefault(msg.data_array)[i] = m.from)
    /\ should_render' = TRUE
    /\ need_render' = TRUE
    /\ UNCHANGED panicked

\* the MsgTypes::Users arm
HandleUsers(msg) ==
    /\ users' = MakeProfiles(UnwrapOrDefault(msg.data_array))
    /\ should_render' = TRUE
    /\ need_render' = TRUE
    /\ UNCHANGED <<messages, panicked>>

\* a log that takes the new message at its front
HandleMessage_prepend(msg) ==
    IF ~msg.data.some \/ ~FromStrMessageData(msg.data.val).ok
    THEN Panic
    ELSE /\ Len(messages) < MaxLog
         /\ messages' = <<FromStrMessageData(msg.data.val).val>> \o messages
         /\ should_render' = TRUE
         /\ need_render' = TRUE
         /\ UNCHANGED <<users, panicked>>

\* a Message arm that pushes the message but returns false
HandleMessage_noRender(msg) ==
    IF ~msg.data.some \/ ~FromStrMessageData(msg.data.val).ok
    THEN Panic
    ELSE /\ Len(messages) < MaxLog
         /\ messages' = Append(messages, FromStrMessageData(msg.data.val).val)
         /\ should_render' = FALSE
         /\ UNCHANGED <<users, panicked, need_render>>

\* a Message arm that adds an unlisted sender to the roster
HandleMessage_addSender(msg) ==
    IF ~msg.data.some \/ ~FromStrMessageData(msg.data.val).ok
    THEN Panic
    ELSE /\ Len(messages) < MaxLog
         /\ messages' = Append(messages, FromStrMessageData(msg.data.val).val)
         /\ users' = IF \E i \in 1..Len(users) :
                           users[i].name = FromStrMessageData(msg.data.val).val.from
                      THEN users
                      ELSE users \o MakeProfiles(<<FromStrMessageData(msg.data.val).val.from>>)
         /\ should_render' = TRUE
         /\ need_render' = TRUE
         /\ UNCHANGED panicked

\* the MsgTypes::Message arm
HandleMessage(msg) ==
    IF ~msg.data.some \/ ~FromStrMessageData(msg.data.val).ok
    THEN Panic
    ELSE /\ Len(messages) < MaxLog
         /\ messages' = Append(messages, FromStrMessageData(msg.data.val).val)
         /\ should_render' = TRUE
         /\ need_render' = TRUE
         /\ UNCHANGED <<users, panicked>>

\* a catch-all arm that takes an inbound register as a new session
HandleOther_reset(msg) ==
    /\ users' = <<>>
    /\ should_render' = FALSE
    /\ UNCHANGED <<messages, panicked, need_render>>

\* the catch-all arm
HandleOther(msg) ==
    /\ should_render' = FALSE
    /\ UNCHANGED <<users, messages, panicked, need_render>>

\* Msg::HandleMsg(s)
HandleMsg(s) ==
    /\ created /\ ~panicked /\ chat_input.some
    /\ IF ~FromStrWebSocketMessage(s).ok
       THEN Panic
       ELSE LET msg == FromStrWebSocketMessage(s).val IN
            CASE msg.message_type = "users" -> HandleUsers(msg)
              [] msg.message_type = "message" -> HandleMessage(msg)
              [] OTHER -> HandleOther(msg)
    /\ last_msg' = IF FromStrWebSocketMessage(s).ok
                   THEN "HandleMsg:" \o FromStrWebSocketMessage(s).val.message_type
                   ELSE "HandleMsg:undecodable"
    /\ UNCHANGED <<username, created, dark_mode, chat_input, tx>>

\* an envelope whose data is pre-wrapped in the nested record
SubmitEnvelope_wrapped(v) ==
    [message_type |-> "message",
     data |-> SomeS(Obj(SomeStr(username), SomeStr(v.txt))),
     data_array |-> NoneV]

\* the envelope built from input.value()
SubmitEnvelope(v) ==
    [message_type |-> "message", data |-> SomeS(v), data_array |-> NoneV]

\* a submit that echoes the text into the local log
SubmitMessage_echo(ok) ==
    /\ created /\ ~panicked /\ chat_input.some
    /\ Len(tx) < MaxOut
    /\ Len(messages) < MaxLog
    /\ tx' = TrySend(tx, ToStringWebSocketMessage(SubmitEnvelope(chat_input.val)), ok)
    /\ messages' = Append(messages, [from |-> username, message |-> chat_input.val.txt])
    /\ chat_input' = SomeS(Raw(""))
    /\ should_render' = FALSE
    /\ last_msg' = "SubmitMessage"
    /\ UNCHANGED <<username, created, dark_mode, users, panicked, need_render>>

\* a submit that keeps the typed text when the transport refuses the send
SubmitMessage_keepOnError(ok) ==
    /\ created /\ ~panicked /\ chat_input.some
    /\ Len(tx) < MaxOut
    /\ tx' = TrySend(tx, ToStringWebSocketMessage(SubmitEnvelope(chat_input.val)), ok)
    /\ chat_input' = IF ok THEN SomeS(Raw("")) ELSE chat_input
    /\ should_render' = FALSE
    /\ last_msg' = "SubmitMessage"
    /\ UNCHANGED <<username, created, dark_mode, users, messages, panicked, need_render>>

\* Msg::SubmitMessage
SubmitMessage(ok) ==
    /\ created /\ ~panicked /\ chat_input.some
    /\ Len(tx) < MaxOut
    /\ IF chat_input.some
       THEN /\ tx' = TrySend(tx, ToStringWebSocketMessage(SubmitEnvelope(chat_input.val)), ok)
            /\ chat_input' = SomeS(Raw(""))
       ELSE UNCHANGED <<tx, chat_input>>
    /\ should_render' = FALSE
    /\ last_msg' = "SubmitMessage"
    /\ UNCHANGED <<username, created, dark_mode, users, messages, panicked, need_render>>

----------------------------------------------------------------------------
(* Chat::view and the input element                                        *)

\* a lookup that falls back to a placeholder profile
HasUser_fallback(us, m) == TRUE

\* self.users.iter().find(|u| u.name == m.from) is Some
HasUser(us, m) == \E i \in 1..Len(us) : us[i].name = m.from

\* Chat::view: the sender lookup is unwrapped for every logged message; a
\* finished render binds chat_input to the (initially empty) input element
View ==
    /\ created /\ ~panicked /\ need_render
    /\ IF \A i \in 1..Len(messages) : HasUser(users, messages[i])
       THEN /\ need_render' = FALSE
            /\ chat_input' = IF chat_input.some THEN chat_input ELSE SomeS(Raw(""))
            /\ UNCHANGED panicked
       ELSE /\ panicked' = TRUE
            /\ UNCHANGED <<need_render, chat_input>>
    /\ UNCHANGED <<username, created, dark_mode, users, messages, tx, should_render,
                   last_msg>>

\* the user edits the text of the input element
TypeInput(v) ==
    /\ created /\ ~panicked /\ chat_input.some
    /\ chat_input' = SomeS(v)
    /\ UNCHANGED <<username, created, dark_mode, users, messages, tx, panicked,
                   need_render, should_render, last_msg>>

----------------------------------------------------------------------------
Next ==
    \/ \E ok \in BOOLEAN : Create(ok)
    \/ View
    \/ \E v \in InputValues : TypeInput(v)
    \/ ToggleDarkMode
    \/ \E s \in InboundTexts : HandleMsg(s)
    \/ \E ok \in BOOLEAN : SubmitMessage(ok)

Spec == Init /\ [][Next]_vars

----------------------------------------------------------------------------
(* The wire schema, as the claims state it                                 *)

\* s is the text of a well-formed envelope of the given kind
IsEnvelope(s, kind) ==
    /\ s.json
    /\ s.messageType = JStr(Raw(kind))
    /\ s.dataArray.k \in {"absent", "null", "arr"}
    /\ s.data.k \in {"absent", "null", "str"}

\* t is the text of a nested {from, message} record
IsNestedRecord(t) == t.obj /\ t.from.some /\ t.message.some

\* s is a message envelope whose data holds a well-formed nested record
IsValidMessage(s) ==
    IsEnvelope(s, "message") /\ s.data.k = "str" /\ IsNestedRecord(s.data.s)

\* the names of a roster, in order
Names(us) == [i \in 1..Len(us) |-> us[i].name]

----------------------------------------------------------------------------
(* Claims                                                                  *)

\* C1: whenever update processes a users envelope that carries a dataArray,
\* the roster's names afterwards are exactly that dataArray, same order and
\* length, whatever the roster was before.
C1_RosterReplaced ==
    [][\A s \in InboundTexts :
         (IsEnvelope(s, "users") /\ s.dataArray.k = "arr" /\ HandleMsg(s))
            => Names(users') = s.dataArray.a]_vars

C1_Witness ==
    /\ last_msg = "HandleMsg:users"
    /\ Names(users) = <<"alice", "bob">>
    /\ ~panicked

\* C2: processing a message envelope whose data is a well-formed nested
\* record appends exactly the decoded record to the log and leaves the
\* earlier entries as they were.
C2_MessageAppended ==
    [][\A s \in InboundTexts :
         (IsValidMessage(s) /\ HandleMsg(s))
            => /\ messages' = Append(messages, [from |-> s.data.s.from.val,
                                                 message |-> s.data.s.message.val])
               /\ ~panicked']_vars

C2_Witness ==
    /\ last_msg = "HandleMsg:message"
    /\ messages = <<[from |-> "bob", message |-> "hi"],
                    [from |-> "alice", message |-> "cat.gif"]>>
    /\ ~panicked

\* C3: a message envelope whose data is absent, null or not a nested record
\* is dropped: log, roster and display mode unchanged and no panic.
C3_MalformedMessageDropped ==
    [][\A s \in InboundTexts :
         (IsEnvelope(s, "message") /\ ~IsValidMessage(s) /\ HandleMsg(s))
            => (UNCHANGED <<messages, users, dark_mode>> /\ ~panicked')]_vars

\* C4: a text that is not JSON, lacks messageType or carries an unknown
\* messageType is rejected for that event only: state unchanged, no panic.
C4_UndecodableRejected ==
    [][\A s \in InboundTexts :
         ((~s.json \/ s.messageType.k # "str" \/ s.messageType.s.txt \notin MsgTypes)
          /\ HandleMsg(s))
            => (UNCHANGED <<messages, users, dark_mode>> /\ ~panicked')]_vars

\* the wire text of a register envelope for username u
RegisterText(u) == Wire(JStr(Raw("register")), JNull, JStr(Raw(u)))

\* the wire text of a message envelope whose data is the text v
MessageText(v) == Wire(JStr(Raw("message")), JNull, JStr(v))

\* the positions of tx that hold a register envelope
RegisterPositions == {i \in 1..Len(tx) : tx[i].messageType = JStr(Raw("register"))}

\* C5 as stated: once the engine is created the outbound transport holds
\* exactly one register envelope, with data = username and dataArray = null,
\* and it is the first outbound envelope.
C5_ExactlyOneRegister ==
    created => (RegisterPositions = {1} /\ tx[1] = RegisterText(username))

\* C5 as amended: creation makes one send attempt, of the register envelope
\* with data = username and dataArray = null. If the transport takes it, it is
\* the first outbound envelope; if the transport refuses it, nothing is put on
\* the transport and it is not retried. Nothing is sent or processed before
\* creation, and no other register envelope is ever sent.
C5_RegisterAtCreate ==
    /\ [](~created => (tx = <<>> /\ users = <<>> /\ messages = <<>>
                        /\ ~dark_mode /\ last_msg = "none"))
    /\ [](RegisterPositions \subseteq {1})
    /\ [](1 \in RegisterPositions => tx[1] = RegisterText(username))
    /\ [][Create(TRUE) => tx' = <<RegisterText(username)>>]_vars
    /\ [][Create(FALSE) => tx' = <<>>]_vars
    /\ [][created => RegisterPositions' = RegisterPositions]_vars

C5_Witness ==
    /\ created
    /\ Len(tx) = 2
    /\ tx[1] = RegisterText(username)
    /\ tx[2] = MessageText(Raw(" hi "))

\* C6: a SubmitMessage while the input value is the empty string changes
\* neither the log, nor the roster, nor the outbound channel.
C6_EmptySubmitNoop ==
    [][\A ok \in BOOLEAN :
         (chat_input = SomeS(Raw("")) /\ SubmitMessage(ok))
            => UNCHANGED <<messages, users, tx>>]_vars

\* C7: a SubmitMessage with a non-empty input value v that the transport
\* takes appends exactly one text to the channel: the message envelope with
\* data = v as typed and dataArray = null.
C7_SubmitSendsRaw ==
    [][(chat_input.some /\ chat_input.val # Raw("") /\ SubmitMessage(TRUE))
         => tx' = Append(tx, MessageText(chat_input.val))]_vars

C7_Witness ==
    /\ last_msg = "SubmitMessage"
    /\ Len(tx) > 0
    /\ tx[Len(tx)] = MessageText(Raw(" hi "))
    /\ chat_input = SomeS(Raw(""))

\* C8: a SubmitMessage, sent or refused, leaves log, roster and display mode
\* as they were; the log changes only in a step that processes a well-formed
\* inbound message envelope.
C8_NoLocalEcho ==
    [][/\ \A ok \in BOOLEAN :
            SubmitMessage(ok) => UNCHANGED <<messages, users, dark_mode>>
       /\ messages' # messages =>
            \E s \in InboundTexts : IsValidMessage(s) /\ HandleMsg(s)]_vars

C8_Witness ==
    /\ last_msg = "SubmitMessage"
    /\ \E i \in 1..Len(tx) : tx[i] = MessageText(Raw(" hi "))
    /\ messages = <<>>

\* C9: a ToggleDarkMode step always yields the other value of dark_mode, and
\* toggling that value gives the original back; no other step changes
\* dark_mode, so two toggles in a row restore it.
C9_ToggleInvolution ==
    [][IF ToggleDarkMode
       THEN dark_mode' # dark_mode /\ toggle_dark_mode(dark_mode') = dark_mode
       ELSE dark_mode' = dark_mode]_vars

C9_Witness ==
    /\ last_msg = "ToggleDarkMode"
    /\ dark_mode = FALSE
    /\ ~need_render

\* C10: processing a well-formed inbound register envelope changes neither
\* roster, log, display mode nor the outbound channel, and does not panic,
\* whatever its data and dataArray hold.
C10_InboundRegisterNoop ==
    [][\A s \in InboundTexts :
         (IsEnvelope(s, "register") /\ HandleMsg(s))
            => (UNCHANGED <<users, messages, dark_mode, tx>> /\ ~panicked')]_vars

C10_Witness ==
    /\ last_msg = "HandleMsg:register"
    /\ users # <<>>
    /\ messages # <<>>
    /\ dark_mode
    /\ should_render = FALSE
    /\ ~panicked

\* a is a prefix of b
IsPrefix(a, b) == Len(a) <= Len(b) /\ SubSeq(b, 1, Len(a)) = a

\* the record a valid message envelope carries
NestedRecord(s) == [from |-> s.data.s.from.val, message |-> s.data.s.message.val]

\* C11: the log is append-only and in arrival order: every step leaves the
\* old log as a prefix of the new one, the log changes only in a step that
\* processes a valid message envelope, and such a step appends exactly that
\* envelope's record; so the log is always the sequence of the records of
\* the valid message envelopes processed so far.
C11_LogAppendOnly ==
    [][/\ IsPrefix(messages, messages')
       /\ messages' # messages =>
            \E s \in InboundTexts :
                /\ IsValidMessage(s)
                /\ HandleMsg(s)
                /\ messages' = Append(messages, NestedRecord(s))
       /\ \A s \in InboundTexts :
            (IsValidMessage(s) /\ HandleMsg(s)) => Len(messages') = Len(messages) + 1]_vars

C11_Witness ==
    /\ last_msg = "HandleMsg:users"
    /\ messages = <<[from |-> "alice", message |-> "cat.gif"],
                    [from |-> "bob", message |-> "hi"]>>
    /\ Names(users) = <<"alice">>

\* C12: after creation and before any event is processed, roster and log are
\* empty and dark mode is off, whatever the username and whether or not the
\* register send was accepted.
C12_InitialSessionState ==
    (created /\ last_msg = "none") => (users = <<>> /\ messages = <<>> /\ ~dark_mode)

C12_Witness ==
    /\ created
    /\ last_msg = "none"
    /\ username = "bob"
    /\ tx = <<>>
    /\ chat_input = SomeS(Raw(""))

\* C13: a users envelope whose dataArray is missing or null is rejected and
\* leaves the roster as it was.
C13_UsersWithoutListRejected ==
    [][\A s \in InboundTexts :
         (IsEnvelope(s, "users") /\ s.dataArray.k \in {"absent", "null"} /\ HandleMsg(s))
            => users' = users]_vars

\* C14: a SubmitMessage whose send the transport refuses puts nothing on the
\* channel, clears the input field just as an accepted one does, changes no
\* session state and does not stop the engine; the channel grows only in
\* the creation step or in an accepted submit, by one text, so a refused
\* send is never retried.
C14_SendErrorOnlyLogged ==
    [][/\ SubmitMessage(FALSE) =>
            /\ tx' = tx
            /\ chat_input' = SomeS(Raw(""))
            /\ ~panicked'
            /\ UNCHANGED <<users, messages, dark_mode>>
       /\ SubmitMessage(TRUE) => chat_input' = SomeS(Raw(""))
       /\ tx' # tx =>
            /\ (\E ok \in BOOLEAN : Create(ok)) \/ SubmitMessage(TRUE)
            /\ Len(tx') = Len(tx) + 1]_vars

C14_Witness ==
    /\ last_msg = "SubmitMessage"
    /\ tx = <<RegisterText(username)>>
    /\ chat_input = SomeS(Raw(""))
    /\ ~panicked

\* C15: a ToggleDarkMode step leaves roster, log, input field and outbound
\* channel as they were.
C15_ToggleFrame ==
    [][ToggleDarkMode => UNCHANGED <<users, messages, chat_input, tx>>]_vars

C15_Witness ==
    /\ last_msg = "ToggleDarkMode"
    /\ dark_mode
    /\ users # <<>>
    /\ messages # <<>>
    /\ chat_input = SomeS(Raw(" hi "))
    /\ Len(tx) = 2

\* C16: update returns true for every toggle, every users envelope and every
\* appended message, and false for an inbound register and every submit; a
\* step that changes roster, log or dark mode always returns true and leaves
\* a render pending.
C16_RenderSignal ==
    [][/\ ToggleDarkMode => should_render'
       /\ \A s \in InboundTexts :
            /\ (IsEnvelope(s, "users") /\ HandleMsg(s)) => should_render'
            /\ (IsValidMessage(s) /\ HandleMsg(s)) => should_render'
            /\ (IsEnvelope(s, "register") /\ HandleMsg(s)) => ~should_render'
       /\ \A ok \in BOOLEAN : SubmitMessage(ok) => ~should_render'
       /\ <<users, messages, dark_mode>>' # <<users, messages, dark_mode>>
            => (should_render' /\ need_render')]_vars

C16_Witness ==
    /\ last_msg = "HandleMsg:message"
    /\ Len(messages) = 1
    /\ should_render
    /\ need_render
    /\ ~panicked

\* C17: a users envelope yields one profile per element of its dataArray,
\* duplicates included, each with the name as received and the avatar
\* derived from it; a roster with the same name twice is reachable.
C17_DuplicatesKept ==
    [][\A s \in InboundTexts :
         (IsEnvelope(s, "users") /\ s.dataArray.k = "arr" /\ HandleMsg(s))
            => /\ Len(users') = Len(s.dataArray.a)
               /\ \A i \in 1..Len(s.dataArray.a) :
                    users'[i] =
                      [name |-> s.dataArray.a[i],
                       avatar |-> "https://avatars.dicebear.com/api/adventurer-neutral/"
                                  \o s.dataArray.a[i] \o ".svg"]]_vars

C17_Witness ==
    /\ Len(users) = 2
    /\ users[1].name = users[2].name
    /\ ~panicked

\* C18: processing a users envelope leaves log and dark mode as they were,
\* and processing a message envelope leaves roster and dark mode as they
\* were.
C18_RosterLogIndependent ==
    [][\A s \in InboundTexts :
         /\ (IsEnvelope(s, "users") /\ HandleMsg(s)) => UNCHANGED <<messages, dark_mode>>
         /\ (IsEnvelope(s, "message") /\ HandleMsg(s)) => UNCHANGED <<users, dark_mode>>]_vars

C18_Witness ==
    /\ last_msg = "HandleMsg:message"
    /\ messages = <<[from |-> "bob", message |-> "hi"]>>
    /\ Names(users) = <<"alice">>
    /\ ~panicked

\* every logged message's sender is the name of some roster entry
SendersListed ==
    \A i \in 1..Len(messages) : \E j \in 1..Len(users) : users[j].name = messages[i].from

\* C19: the engine does not keep every logged sender in the roster, and a
\* render in a state where some logged sender is unlisted panics (a render
\* in any other state does not).
C19_UnlistedSenderFatal ==
    [][View => (panicked' <=> ~SendersListed)]_vars

C19_Witness ==
    /\ last_msg = "HandleMsg:users"
    /\ ~SendersListed
    /\ panicked

\* C20: nothing but creation and SubmitMessage sends; a submit sends at most
\* one text; with a transport that accepts every send the channel holds the
\* register envelope followed by one message envelope per non-empty submit,
\* in submission order.
C20_OutboundOrigin ==
    [][/\ (\E s \in InboundTexts : HandleMsg(s)) => tx' = tx
       /\ (ToggleDarkMode \/ View \/ \E v \in InputValues : TypeInput(v)) => tx' = tx
       /\ \A ok \in BOOLEAN : SubmitMessage(ok) => Len(tx') <= Len(tx) + 1
       /\ Create(TRUE) => tx' = <<RegisterText(username)>>
       /\ SubmitMessage(TRUE) =>
            tx' = IF chat_input.val = Raw("")
                  THEN tx
                  ELSE Append(tx, MessageText(chat_input.val))]_vars

====
